---- MODULE Spec2Model ----
(***************************************************************************)
(* video-merger.py: concatenation of numbered video parts and of their     *)
(* subtitle parts, with the subtitle timestamps shifted by the cumulative  *)
(* duration of the preceding video parts and the blocks renumbered.        *)
(*                                                                         *)
(* Text is modelled by its structure.  A string is the sequence of its     *)
(* lines (s.split('\n'), so '' is <<Blank>>); a line is the sequence of    *)
(* its pieces between ' --> ' separators (line.split(' --> ')); a piece is *)
(* a record [ts, txt]: ts holds the digit groups of the leading            *)
(* (\d+):(\d+):(\d+),(\d+) match (empty when the regex does not match) and *)
(* txt the text that is not part of the match.                             *)
(*                                                                         *)
(* Python floats are IEEE-754 doubles.  A non-negative double is modelled  *)
(* exactly as [int, frac]: its integer part and the FracBits binary digits *)
(* of its fractional part, in limbs of LimbBits digits, most significant   *)
(* first.  Every arithmetic operation computes the exact result and rounds *)
(* it to MantBits significant bits, ties to even, as the hardware does.    *)
(* FracBits digits hold every double of at least 2^-11 exactly; the        *)
(* smallest non-zero value met here is 1 / 1000.                           *)
(***************************************************************************)
EXTENDS Integers, Sequences, FiniteSets, TLC

VARIABLES
    argc,             \* len(sys.argv)
    video_parts,      \* find_video_parts(): the sorted media parts
    subtitle_parts,   \* find_subtitle_parts(): the sorted subtitle parts (their contents)
    pc,               \* position of main()
    list_file,        \* concat_list.txt: "absent" or "present"
    list_created,     \* concat_list.txt was written by this run
    output_video,     \* {identifier}.mp4: "absent", "partial" or "written"
    output_subtitle,  \* {identifier}.srt: <<>> (absent) or <<content>>
    i,                \* loop index of concatenate_subtitles
    combined_srt,     \* blocks collected so far
    subtitle_counter, \* next sequence number
    current_offset,   \* accumulated duration (a double)
    ffmpeg_calls,     \* invocations of the concatenation tool
    probes,           \* invocations of the duration probe: [seg, millis], millis < 0: failed
    failed,           \* "none", "ffmpeg" or "probe"
    exit_code,        \* exit status of the process, -1 while running
    t_pc,             \* position of the timestamp round trip
    t_d,              \* the duration given to format_srt_time
    t_text,           \* format_srt_time(t_d)
    t_back            \* parse_srt_time(t_text)

mainVars == <<argc, video_parts, subtitle_parts, pc, list_file, list_created,
              output_video, output_subtitle, i, combined_srt, subtitle_counter,
              current_offset, ffmpeg_calls, probes, failed, exit_code>>
timeVars == <<t_pc, t_d, t_text, t_back>>
vars == <<mainVars, timeVars>>

----------------------------------------------------------------------------
(* Bounds *)

MaxParts == 2
MaxLines == 3
MaxSeconds == 1

----------------------------------------------------------------------------
(* IEEE-754 double arithmetic on non-negative values *)

MantBits == 53
LimbBits == 16
NLimbs == 4
MsPerSecond == 1000

Base == 2 ^ LimbBits
FracBits == NLimbs * LimbBits
ZeroFrac == [l \in 1..NLimbs |-> 0]
FromInt(n) == [int |-> n, frac |-> ZeroFrac]

RECURSIVE BitLen(_)
BitLen(n) == IF n = 0 THEN 0 ELSE 1 + BitLen(n \div 2)

\* Binary digit k (1 = the most significant) of the fraction held in limbs f.
BitAt(f, k) ==
    (f[(k - 1) \div LimbBits + 1] \div 2 ^ (LimbBits - 1 - ((k - 1) % LimbBits))) % 2

\* Number of leading zero digits among the first w binary digits of f.
LeadZeros(f, w) ==
    IF \A k \in 1..w : BitAt(f, k) = 0 THEN w
    ELSE (CHOOSE k \in 1..w :
              BitAt(f, k) = 1 /\ \A j \in 1..(k - 1) : BitAt(f, j) = 0) - 1

\* Limbs k..NLimbs of a + b (two fractions) with the carry out of limb k.
RECURSIVE AddLimbs(_, _, _)
AddLimbs(a, b, k) ==
    IF k > NLimbs THEN [limbs |-> <<>>, carry |-> 0]
    ELSE LET low == AddLimbs(a, b, k + 1)
             t   == a[k] + b[k] + low.carry
         IN  [limbs |-> <<t % Base>> \o low.limbs, carry |-> t \div Base]

\* The exact value n + 0.f (+ something below the last digit when sticky),
\* rounded to MantBits significant bits, ties to even.
Round(n, f, sticky) ==
    LET w     == Len(f) * LimbBits
        p     == IF n > 0 THEN MantBits - BitLen(n) ELSE LeadZeros(f, w) + MantBits
        trunc == [l \in 1..NLimbs |->
                     IF l * LimbBits <= p THEN f[l]
                     ELSE IF p <= (l - 1) * LimbBits THEN 0
                     ELSE (f[l] \div 2 ^ (l * LimbBits - p)) * 2 ^ (l * LimbBits - p)]
    IN  IF p >= w THEN [int |-> n, frac |-> [l \in 1..NLimbs |-> f[l]]]
        ELSE
        LET guard == BitAt(f, p + 1)
            rest  == sticky \/ \E k \in (p + 2)..w : BitAt(f, k) = 1
            lsb   == IF p = 0 THEN n % 2 ELSE BitAt(f, p)
            up    == guard = 1 /\ (rest \/ lsb = 1)
            ulp   == [l \in 1..NLimbs |->
                         IF p >= 1 /\ l = (p - 1) \div LimbBits + 1
                         THEN 2 ^ (l * LimbBits - p) ELSE 0]
            sum   == AddLimbs(trunc, ulp, 1)
        IN  IF ~up THEN [int |-> n, frac |-> trunc]
            ELSE IF p = 0 THEN [int |-> n + 1, frac |-> ZeroFrac]
            ELSE [int |-> n + sum.carry, frac |-> sum.limbs]

\* Long division: the first c limbs of r / d (r < d), and the remainder.
RECURSIVE DivLimbs(_, _, _)
DivLimbs(r, d, c) ==
    IF c = 0 THEN [limbs |-> <<>>, rem |-> r]
    ELSE LET t    == r * Base
             next == DivLimbs(t % d, d, c - 1)
         IN  [limbs |-> <<t \div d>> \o next.limbs, rem |-> next.rem]

\* int / int (true division), correctly rounded.
Div(n, d) ==
    LET q == DivLimbs(n % d, d, NLimbs + 1)
    IN  Round(n \div d, q.limbs, q.rem # 0)

\* float + float
Add(x, y) ==
    LET s == AddLimbs(x.frac, y.frac, 1)
    IN  Round(x.int + y.int + s.carry, s.limbs, FALSE)

\* float % 1: exact
Mod1(x) == [int |-> 0, frac |-> x.frac]

\* Limbs k..NLimbs of a * m (a fraction by an integer) with the carry out of limb k.
RECURSIVE MulLimbs(_, _, _)
MulLimbs(a, m, k) ==
    IF k > NLimbs THEN [limbs |-> <<>>, carry |-> 0]
    ELSE LET low == MulLimbs(a, m, k + 1)
             t   == a[k] * m + low.carry
         IN  [limbs |-> <<t % Base>> \o low.limbs, carry |-> t \div Base]

\* float * int
Mul(x, m) ==
    LET s == MulLimbs(x.frac, m, 1)
    IN  Round(x.int * m + s.carry, s.limbs, FALSE)

\* int(float)
Trunc(x) == x.int

----------------------------------------------------------------------------
(* Timestamps *)

RECURSIVE ToInt(_)
ToInt(ds) ==
    IF ds = <<>> THEN 0 ELSE 10 * ToInt(SubSeq(ds, 1, Len(ds) - 1)) + ds[Len(ds)]

RECURSIVE Digits(_)
Digits(n) == IF n < 10 THEN <<n>> ELSE Digits(n \div 10) \o <<n % 10>>

\* f"{n:0wd}"
RECURSIVE Pad(_, _)
Pad(ds, w) == IF Len(ds) >= w THEN ds ELSE Pad(<<0>> \o ds, w)

Text(s) == [ts |-> <<>>, txt |-> s]
Stamp(hh, mm, ss, mmm) == [ts |-> <<hh, mm, ss, mmm>>, txt |-> ""]

parse_srt_time(time_str) ==
    IF time_str.ts # <<>>
    THEN LET h  == ToInt(time_str.ts[1])
             m  == ToInt(time_str.ts[2])
             s  == ToInt(time_str.ts[3])
             ms == ToInt(time_str.ts[4])
         IN  Add(FromInt(h * 3600 + m * 60 + s), Div(ms, MsPerSecond))
    ELSE FromInt(0)

format_srt_time(seconds) ==
    LET ms   == Trunc(Mul(Mod1(seconds), MsPerSecond))
        secs == Trunc(seconds)
        h    == secs \div 3600
        m    == (secs % 3600) \div 60
        s    == secs % 60
    IN  Stamp(Pad(Digits(h), 2), Pad(Digits(m), 2), Pad(Digits(s), 2), Pad(Digits(ms), 3))

----------------------------------------------------------------------------
(* Subtitle text *)

Blank == <<Text("")>>
NumberLine(k) == <<Text(ToString(k))>>

\* Texts that hold '-->' without the blanks around it.
BareArrowTexts == {"a-->b"}

\* '-->' in line
HasArrow(line) ==
    Len(line) >= 2 \/ \E k \in 1..Len(line) : line[k].txt \in BareArrowTexts

\* s.strip(), for text whose non-blank lines neither start nor end with white space.
Strip(content) ==
    LET solid == {k \in 1..Len(content) : content[k] # Blank}
    IN  IF solid = {} THEN <<Blank>>
        ELSE SubSeq(content,
                    CHOOSE k \in solid : \A j \in solid : k <= j,
                    CHOOSE k \in solid : \A j \in solid : j <= k)

\* s.split('\n\n'): the first separator is the first empty line that is followed
\* by another line and is not the first line; the scan goes on after it.
RECURSIVE SplitBlocks(_)
SplitBlocks(content) ==
    LET seps == {k \in 2..(Len(content) - 1) : content[k] = Blank}
    IN  IF seps = {} THEN <<content>>
        ELSE LET sep == CHOOSE k \in seps : \A j \in seps : k <= j
             IN  <<SubSeq(content, 1, sep - 1)>>
                 \o SplitBlocks(SubSeq(content, sep + 1, Len(content)))

\* '\n\n'.join(blocks)
RECURSIVE JoinBlocks(_)
JoinBlocks(blocks) ==
    IF blocks = <<>> THEN <<Blank>>
    ELSE IF Len(blocks) = 1 THEN blocks[1]
    ELSE blocks[1] \o <<Blank>> \o JoinBlocks(Tail(blocks))

offset_subtitle(subtitle_content, offset_seconds) ==
    LET lines == Strip(subtitle_content)
    IN  [k \in 1..Len(lines) |->
            IF HasArrow(lines[k])
            THEN IF Len(lines[k]) = 2
                 THEN LET start == parse_srt_time(lines[k][1])
                          end   == parse_srt_time(lines[k][2])
                      IN  <<format_srt_time(Add(start, offset_seconds)),
                            format_srt_time(Add(end, offset_seconds))>>
                 ELSE lines[k]
            ELSE lines[k]]

\* Renumber without the assignment to block_lines[0]: the original numbers stay.
Renumber_KeepsOriginal(blocks, counter) == blocks

\* The renumbering loop: block_lines[0] = str(subtitle_counter), for each block.
Renumber(blocks, counter) ==
    [k \in 1..Len(blocks) |-> <<NumberLine(counter + k - 1)>> \o Tail(blocks[k])]

\* float(result.stdout.strip()) for a probe that printed millis / 1000 in decimal.
get_video_duration(millis) == Div(millis, MsPerSecond)

\* zip(subtitle_parts, video_parts) stops at the shorter list.
Pairs == IF Len(subtitle_parts) <= Len(video_parts)
         THEN Len(subtitle_parts) ELSE Len(video_parts)

----------------------------------------------------------------------------
(* The directory and the external tools *)

Num == <<Text("9")>>
Payload == <<Text("Hi")>>
Timing == <<Stamp(<<0, 0>>, <<0, 0>>, <<0, 5>>, <<0, 0, 2>>),
            Stamp(<<0, 0>>, <<0, 0>>, <<0, 7>>, <<5, 0, 0>>)>>
Malformed == <<Text("foo"), Text("bar")>>
LineAlphabet == {Blank, Num, Payload, Timing, Malformed}

\* The contents of n subtitle parts holding at most budget lines together.
RECURSIVE Directories(_, _)
Directories(n, budget) ==
    IF n = 0 THEN {<<>>}
    ELSE UNION {{<<c>> \o rest : c \in [1..len -> LineAlphabet],
                                 rest \in Directories(n - 1, budget - len)} :
                len \in 1..budget}

\* What the probe may print, in milliseconds: 10.000 and 20.500.
ProbeOutputs == {10000, 20500}

----------------------------------------------------------------------------
(* main() *)

Init ==
    /\ argc \in {1, 2}
    /\ video_parts = <<>>
    /\ subtitle_parts = <<>>
    /\ pc = "start"
    /\ list_file = "absent"
    /\ list_created = FALSE
    /\ output_video = "absent"
    /\ output_subtitle = <<>>
    /\ i = 0
    /\ combined_srt = <<>>
    /\ subtitle_counter = 1
    /\ current_offset = FromInt(0)
    /\ ffmpeg_calls = 0
    /\ probes = <<>>
    /\ failed = "none"
    /\ exit_code = -1
    /\ t_pc = "idle" /\ t_d = FromInt(0) /\ t_text = Text("") /\ t_back = FromInt(0)

\* len(sys.argv) < 2
Usage ==
    /\ pc = "start"
    /\ argc < 2
    /\ pc' = "exit_usage"
    /\ exit_code' = 1
    /\ UNCHANGED <<argc, video_parts, subtitle_parts, list_file, list_created,
                   output_video, output_subtitle, i, combined_srt, subtitle_counter,
                   current_offset, ffmpeg_calls, probes, failed, timeVars>>

\* find_video_parts, find_subtitle_parts: whatever the directory holds
FindParts ==
    /\ pc = "start"
    /\ argc >= 2
    /\ \E n \in 0..MaxParts : video_parts' = [k \in 1..n |-> k]
    /\ \E n \in 0..MaxParts : subtitle_parts' \in Directories(n, MaxLines)
    /\ pc' = "check"
    /\ UNCHANGED <<argc, list_file, list_created, output_video, output_subtitle, i,
                   combined_srt, subtitle_counter, current_offset, ffmpeg_calls,
                   probes, failed, exit_code, timeVars>>

\* NoVideoParts without the sys.exit(1): main goes on to concatenate_videos.
NoVideoParts_Proceeds ==
    /\ pc = "check"
    /\ video_parts = <<>>
    /\ list_file' = "present"
    /\ list_created' = TRUE
    /\ pc' = "ffmpeg"
    /\ UNCHANGED <<argc, video_parts, subtitle_parts, output_video, output_subtitle, i,
                   combined_srt, subtitle_counter, current_offset, ffmpeg_calls,
                   probes, failed, exit_code, timeVars>>

\* if not video_parts: sys.exit(1)
NoVideoParts ==
    /\ pc = "check"
    /\ video_parts = <<>>
    /\ pc' = "exit_no_video"
    /\ exit_code' = 1
    /\ UNCHANGED <<argc, video_parts, subtitle_parts, list_file, list_created,
                   output_video, output_subtitle, i, combined_srt, subtitle_counter,
                   current_offset, ffmpeg_calls, probes, failed, timeVars>>

\* concatenate_videos, up to the call of ffmpeg: the list file is written
WriteListFile ==
    /\ pc = "check"
    /\ video_parts # <<>>
    /\ list_file' = "present"
    /\ list_created' = TRUE
    /\ pc' = "ffmpeg"
    /\ UNCHANGED <<argc, video_parts, subtitle_parts, output_video, output_subtitle, i,
                   combined_srt, subtitle_counter, current_offset, ffmpeg_calls,
                   probes, failed, exit_code, timeVars>>

\* subprocess.run(cmd, check=True) returns; os.remove(list_file)
FfmpegOk ==
    /\ pc = "ffmpeg"
    /\ ffmpeg_calls' = ffmpeg_calls + 1
    /\ output_video' = "written"
    /\ list_file' = "absent"
    /\ pc' = "subtitles"
    /\ UNCHANGED <<argc, video_parts, subtitle_parts, list_created, output_subtitle, i,
                   combined_srt, subtitle_counter, current_offset, probes, failed,
                   exit_code, timeVars>>

\* subprocess.run(cmd, check=True) raises: main ends with the exception
FfmpegFail ==
    /\ pc = "ffmpeg"
    /\ ffmpeg_calls' = ffmpeg_calls + 1
    /\ output_video' \in {"absent", "partial"}
    /\ failed' = "ffmpeg"
    /\ pc' = "aborted"
    /\ exit_code' = 1
    /\ UNCHANGED <<argc, video_parts, subtitle_parts, list_file, list_created,
                   output_subtitle, i, combined_srt, subtitle_counter, current_offset,
                   probes, timeVars>>

\* SkipSubtitles that still writes an (empty) subtitle file.
SkipSubtitles_WritesEmpty ==
    /\ pc = "subtitles"
    /\ subtitle_parts = <<>>
    /\ output_subtitle' = <<<<Blank>>>>
    /\ pc' = "done"
    /\ exit_code' = 0
    /\ UNCHANGED <<argc, video_parts, subtitle_parts, list_file, list_created,
                   output_video, i, combined_srt, subtitle_counter, current_offset,
                   ffmpeg_calls, probes, failed, timeVars>>

\* if subtitle_parts: ... else: the subtitle step is skipped
SkipSubtitles ==
    /\ pc = "subtitles"
    /\ subtitle_parts = <<>>
    /\ pc' = "done"
    /\ exit_code' = 0
    /\ UNCHANGED <<argc, video_parts, subtitle_parts, list_file, list_created,
                   output_video, output_subtitle, i, combined_srt, subtitle_counter,
                   current_offset, ffmpeg_calls, probes, failed, timeVars>>

\* concatenate_subtitles is entered
StartSubtitles ==
    /\ pc = "subtitles"
    /\ subtitle_parts # <<>>
    /\ combined_srt' = <<>>
    /\ subtitle_counter' = 1
    /\ current_offset' = FromInt(0)
    /\ i' = 0
    /\ pc' = "segment"
    /\ UNCHANGED <<argc, video_parts, subtitle_parts, list_file, list_created,
                   output_video, output_subtitle, ffmpeg_calls, probes, failed,
                   exit_code, timeVars>>

\* One pass of the loop body, up to the call of the probe.
ProcessSegment ==
    /\ pc = "segment"
    /\ i < Pairs
    /\ LET read    == subtitle_parts[i + 1]
           content == IF i > 0 THEN offset_subtitle(read, current_offset) ELSE read
           blocks  == SplitBlocks(Strip(content))
       IN  /\ combined_srt' = combined_srt \o Renumber(blocks, subtitle_counter)
           /\ subtitle_counter' = subtitle_counter + Len(blocks)
    /\ IF i < Len(video_parts) - 1
       THEN pc' = "probe" /\ i' = i
       ELSE pc' = "segment" /\ i' = i + 1
    /\ UNCHANGED <<argc, video_parts, subtitle_parts, list_file, list_created,
                   output_video, output_subtitle, current_offset, ffmpeg_calls,
                   probes, failed, exit_code, timeVars>>

\* get_video_duration(video_file) returns; current_offset += duration
ProbeOk ==
    /\ pc = "probe"
    /\ \E millis \in ProbeOutputs :
           /\ probes' = Append(probes, [seg |-> i, millis |-> millis])
           /\ current_offset' = Add(current_offset, get_video_duration(millis))
    /\ i' = i + 1
    /\ pc' = "segment"
    /\ UNCHANGED <<argc, video_parts, subtitle_parts, list_file, list_created,
                   output_video, output_subtitle, combined_srt, subtitle_counter,
                   ffmpeg_calls, failed, exit_code, timeVars>>

\* ProbeFail with the exception swallowed: the loop goes on with the old offset.
ProbeFail_Swallowed ==
    /\ pc = "probe"
    /\ probes' = Append(probes, [seg |-> i, millis |-> -1])
    /\ failed' = "probe"
    /\ i' = i + 1
    /\ pc' = "segment"
    /\ UNCHANGED <<argc, video_parts, subtitle_parts, list_file, list_created,
                   output_video, output_subtitle, combined_srt, subtitle_counter,
                   current_offset, ffmpeg_calls, exit_code, timeVars>>

\* ffprobe is missing or prints no number: subprocess.run or float() raises
ProbeFail ==
    /\ pc = "probe"
    /\ probes' = Append(probes, [seg |-> i, millis |-> -1])
    /\ failed' = "probe"
    /\ pc' = "aborted"
    /\ exit_code' = 1
    /\ UNCHANGED <<argc, video_parts, subtitle_parts, list_file, list_created,
                   output_video, output_subtitle, i, combined_srt, subtitle_counter,
                   current_offset, ffmpeg_calls, timeVars>>

\* The loop is over: the combined subtitle is written, and main prints Done.
WriteSubtitles ==
    /\ pc = "segment"
    /\ i >= Pairs
    /\ output_subtitle' = <<JoinBlocks(combined_srt) \o <<Blank>>>>
    /\ pc' = "done"
    /\ exit_code' = 0
    /\ UNCHANGED <<argc, video_parts, subtitle_parts, list_file, list_created,
                   output_video, i, combined_srt, subtitle_counter, current_offset,
                   ffmpeg_calls, probes, failed, timeVars>>

Next ==
    \/ Usage
    \/ FindParts
    \/ NoVideoParts
    \/ WriteListFile
    \/ FfmpegOk
    \/ FfmpegFail
    \/ SkipSubtitles
    \/ StartSubtitles
    \/ ProcessSegment
    \/ ProbeOk
    \/ ProbeFail
    \/ WriteSubtitles

Spec == Init /\ [][Next]_vars

Terminal == pc \in {"exit_usage", "exit_no_video", "aborted", "done"}

----------------------------------------------------------------------------
(* The round trip parse_srt_time(format_srt_time(d)) *)

\* d: the double nearest to a whole number of milliseconds.
InitTime ==
    /\ \E s \in 0..MaxSeconds, ms \in 0..(MsPerSecond - 1) :
           t_d = Div(s * MsPerSecond + ms, MsPerSecond)
    /\ t_pc = "format"
    /\ t_text = Text("")
    /\ t_back = FromInt(0)
    /\ argc = 1 /\ video_parts = <<>> /\ subtitle_parts = <<>> /\ pc = "idle"
    /\ list_file = "absent" /\ list_created = FALSE /\ output_video = "absent"
    /\ output_subtitle = <<>> /\ i = 0 /\ combined_srt = <<>>
    /\ subtitle_counter = 1 /\ current_offset = FromInt(0) /\ ffmpeg_calls = 0
    /\ probes = <<>> /\ failed = "none" /\ exit_code = -1

Format ==
    /\ t_pc = "format"
    /\ t_text' = format_srt_time(t_d)
    /\ t_pc' = "parse"
    /\ UNCHANGED <<t_d, t_back, mainVars>>

Parse ==
    /\ t_pc = "parse"
    /\ t_back' = parse_srt_time(t_text)
    /\ t_pc' = "done"
    /\ UNCHANGED <<t_d, t_text, mainVars>>

NextTime == Format \/ Parse

SpecTime == InitTime /\ [][NextTime]_vars

----------------------------------------------------------------------------
(* Vocabulary of the properties *)

Written == output_subtitle # <<>>
OutLines == output_subtitle[1]

\* A block in the sense of the SRT format: a maximal run of non-empty lines.
RECURSIVE Blocks(_)
Blocks(content) ==
    IF content = <<>> THEN <<>>
    ELSE IF content[1] = Blank THEN Blocks(Tail(content))
    ELSE LET blanks == {k \in 1..Len(content) : content[k] = Blank}
             stop   == IF blanks = {} THEN Len(content) + 1
                       ELSE CHOOSE k \in blanks : \A j \in blanks : k <= j
         IN  <<SubSeq(content, 1, stop - 1)>>
             \o Blocks(SubSeq(content, stop, Len(content)))

\* The lines of segment seg (0-based) as the merge reads them.
SegmentLines(seg) == Strip(subtitle_parts[seg + 1])

\* Where line j of segment seg stands in the merged output: the segments before it
\* take their lines and one separating empty line each.
RECURSIVE Position(_, _)
Position(seg, j) ==
    IF seg = 0 THEN j ELSE Len(SegmentLines(seg - 1)) + 1 + Position(seg - 1, j)

\* The blocks of the processed parts, in segment order.
RECURSIVE InputBlocks(_)
InputBlocks(n) ==
    IF n = 0 THEN <<>> ELSE InputBlocks(n - 1) \o Blocks(subtitle_parts[n])

\* The sum of the probed durations of segments 0..seg-1, in milliseconds.
RECURSIVE OffsetMillis(_)
OffsetMillis(seg) ==
    IF seg = 0 THEN 0 ELSE OffsetMillis(seg - 1) + probes[seg].millis

WellFormedStamp(piece) ==
    /\ piece.ts # <<>>
    /\ piece.txt = ""
    /\ Len(piece.ts[1]) = 2 /\ Len(piece.ts[2]) = 2
    /\ Len(piece.ts[3]) = 2 /\ Len(piece.ts[4]) = 3

WellFormedTiming(line) ==
    Len(line) = 2 /\ WellFormedStamp(line[1]) /\ WellFormedStamp(line[2])

\* The value of a well-formed timestamp, in milliseconds.
Millis(piece) ==
    (ToInt(piece.ts[1]) * 3600 + ToInt(piece.ts[2]) * 60 + ToInt(piece.ts[3]))
        * MsPerSecond + ToInt(piece.ts[4])

\* Line j follows another line of its block: it is not in the place of the
\* sequence number.
InsideBlock(content, j) == j > 1 /\ content[j - 1] # Blank

\* Equal but for the values of the timestamps.
SameButShift(a, b) ==
    /\ Len(a) = Len(b)
    /\ \A k \in 1..Len(a) : a[k] = b[k] \/ (Len(a[k]) = 2 /\ Len(b[k]) = 2)

----------------------------------------------------------------------------
(* The claims *)

\* C1: every well-formed timing line of segment seg appears in the merged output
\* with start and end equal to the original value plus the sum of the probed
\* durations of segments 0..seg-1; segment 0 is not shifted.  (Stated for the
\* timing lines that follow another line of their block.)
C1_ShiftedBySum ==
    Written =>
        \A seg \in 0..(Pairs - 1) : \A j \in 1..Len(SegmentLines(seg)) :
            LET line == SegmentLines(seg)[j]
                out  == OutLines[Position(seg, j)]
            IN  (WellFormedTiming(line) /\ InsideBlock(SegmentLines(seg), j)) =>
                    /\ WellFormedTiming(out)
                    /\ Millis(out[1]) = Millis(line[1]) + OffsetMillis(seg)
                    /\ Millis(out[2]) = Millis(line[2]) + OffsetMillis(seg)
                    /\ seg = 0 => out = line

\* C2: the first line of the k-th block of the merged output is the number k,
\* whatever the numbers of the input were: sequence numbers start at 1 and
\* increase by one per block across segment boundaries.
C2_Renumbered ==
    /\ \A k \in 1..Len(combined_srt) : combined_srt[k][1] = NumberLine(k)
    /\ subtitle_counter = Len(combined_srt) + 1
    /\ Written =>
           /\ Len(Blocks(OutLines)) = Len(combined_srt)
           /\ \A k \in 1..Len(Blocks(OutLines)) : Blocks(OutLines)[k][1] = NumberLine(k)

\* C2's case: two segments were merged, the second numbered its first block 9.
C2_Witness ==
    /\ Written
    /\ Pairs = 2
    /\ Len(Blocks(OutLines)) >= 2
    /\ subtitle_parts[2][1] = Num

\* C3: the blocks written are, but for the sequence numbers and the time shift,
\* the blocks of the processed parts in segment order, each once and no other,
\* also when a part is empty or its blocks are more than one empty line apart.
C3_BlocksConcatenated ==
    Written =>
        /\ Len(combined_srt) = Len(InputBlocks(Pairs))
        /\ \A k \in 1..Len(combined_srt) :
               k <= Len(InputBlocks(Pairs)) =>
                   SameButShift(Tail(combined_srt[k]), Tail(InputBlocks(Pairs)[k]))

\* C4: parse_srt_time(format_srt_time(d)) = d for every non-negative d that is a
\* whole number of milliseconds.
C4_RoundTrip == t_pc = "done" => t_back = t_d

\* C5: a line with ' --> ' whose start or end is no HH:MM:SS,mmm timestamp appears
\* in the merged output character for character, in every segment.  (Stated for
\* the lines that follow another line of their block.)
C5_MalformedUnchanged ==
    Written =>
        \A seg \in 0..(Pairs - 1) : \A j \in 1..Len(SegmentLines(seg)) :
            LET line == SegmentLines(seg)[j]
            IN  (HasArrow(line) /\ ~WellFormedTiming(line)
                    /\ InsideBlock(SegmentLines(seg), j)) =>
                    OutLines[Position(seg, j)] = line

\* C6: when no media part matches, main exits with code 1 and nothing else
\* happens: no manifest, no call of the concatenation tool or of the probe, no
\* output file, even if subtitle parts exist.
C6_NoMediaNoOutput ==
    (pc \notin {"start", "exit_usage"} /\ video_parts = <<>>) =>
        /\ pc \in {"check", "exit_no_video"}
        /\ pc = "exit_no_video" => exit_code = 1
        /\ pc = "check" => ENABLED Next
        /\ ffmpeg_calls = 0
        /\ probes = <<>>
        /\ ~list_created /\ list_file = "absent"
        /\ output_video = "absent"
        /\ output_subtitle = <<>>

\* C6's case: main has exited for want of media parts although subtitle parts exist.
C6_Witness == pc = "exit_no_video" /\ video_parts = <<>> /\ subtitle_parts # <<>>

\* C7: once the concatenation tool or a probe has failed, the run is aborted:
\* no step follows, so no further external call, no retry and no output file;
\* {identifier}.srt is not written, and after a failure of the concatenation
\* tool no subtitle was processed.
C7_FailFast ==
    /\ ffmpeg_calls <= 1
    /\ \A k \in 1..(Len(probes) - 1) : probes[k].millis >= 0
    /\ failed # "none" =>
           /\ pc = "aborted"
           /\ exit_code = 1
           /\ ~ENABLED Next
           /\ output_subtitle = <<>>
           /\ failed = "ffmpeg" => (probes = <<>> /\ combined_srt = <<>>)
           /\ failed = "probe" => probes[Len(probes)].millis < 0

\* C7's case: a probe failed after blocks had been collected.
C7_Witness == failed = "probe" /\ pc = "aborted" /\ combined_srt # <<>>

\* C8: in every terminal state of a run that created the manifest, the manifest
\* no longer exists, whether the concatenation tool succeeded or failed.
C8_ManifestDeleted == (Terminal /\ list_created) => list_file = "absent"

\* C9 as stated: with media parts and no subtitle part the tool is invoked once,
\* no subtitle step and no probe happens, no .srt is written and the run
\* reaches Done without an error exit.
C9_AlwaysDone ==
    (Terminal /\ video_parts # <<>> /\ subtitle_parts = <<>>) =>
        /\ pc = "done" /\ exit_code = 0
        /\ ffmpeg_calls = 1
        /\ probes = <<>> /\ combined_srt = <<>>
        /\ output_subtitle = <<>>

\* C9 amended: with media parts and no subtitle part the tool is invoked once,
\* no subtitle step and no probe happens, no .srt is written, and the run
\* reaches Done without an error exit unless the concatenation tool fails, in
\* which case it aborts.
C9_VideoOnly ==
    (video_parts # <<>> /\ subtitle_parts = <<>>) =>
        /\ pc \notin {"segment", "probe"}
        /\ probes = <<>> /\ combined_srt = <<>>
        /\ output_subtitle = <<>>
        /\ ffmpeg_calls <= 1
        /\ Terminal => ffmpeg_calls = 1
        /\ Terminal => (pc = "done" <=> failed = "none")
        /\ Terminal => (pc = "aborted" <=> failed = "ffmpeg")
        /\ pc = "done" => (exit_code = 0 /\ output_video = "written")
        /\ ~Terminal => ENABLED Next

\* C9's case: a video-only merge is done.
C9_Witness ==
    /\ pc = "done" /\ video_parts # <<>> /\ subtitle_parts = <<>>
    /\ output_video = "written"

\* C10: the probe is invoked at most once per segment and only for a segment that
\* is followed by another segment to process, whatever the numbers of video and
\* subtitle parts: a merge makes one call less than it processes segments.
C10_ProbeBeforeNextSegment ==
    /\ \A k \in 1..Len(probes) : probes[k].seg + 1 < Pairs
    /\ \A k, m \in 1..Len(probes) : k # m => probes[k].seg # probes[m].seg
    /\ Written => Len(probes) = Pairs - 1

====
